---------------------------- MODULE Spec2Model ----------------------------
(***************************************************************************)
(* Session and ingestion orchestrator of the KREPS front end (App.js):     *)
(* the conversation transcript, the upload jobs with their status map and  *)
(* the collection summary cache, with the three backend round trips        *)
(* (/query, /upload, /health) as requests in flight that resolve in any    *)
(* order.  React state is updated by whole-value replacement; a handler    *)
(* runs to its first await in one step and its continuation runs in one    *)
(* step when the response arrives (single-threaded event loop).            *)
(***************************************************************************)
EXTENDS Integers, Sequences, FiniteSets, TLC

(* ------------------------------ bounds -------------------------------- *)
\* Accepted calls (query submissions plus file selections) in one run.
MaxCalls == 2
\* How far the wall clock may advance past StartTime.
MaxTicks == 1
\* Reading of Date.now() when the session is constructed.
StartTime == 10

(* --------------------------- JavaScript values ------------------------ *)
Undef == [t |-> "undefined"]
Null == [t |-> "null"]
Num(n) == [t |-> "number", v |-> n]
Str(s) == [t |-> "string", v |-> s]
Arr(s) == [t |-> "array", v |-> s]

\* ToBoolean of a value: undefined, null, 0 and the empty string are falsy,
\* every array and object (even empty) is truthy.
ToBoolean(x) ==
  CASE x.t \in {"undefined", "null"} -> FALSE
    [] x.t = "number" -> x.v # 0
    [] x.t = "string" -> x.v # <<>>
    [] OTHER -> TRUE

\* x || [] : every falsy value is replaced, an array (even empty) is kept.
OrEmptyArray(x) == IF ToBoolean(x) THEN x ELSE Arr(<<>>)

API_BASE == "http://localhost:8000"

(* ------------------------------- text --------------------------------- *)
\* Text is a sequence of characters, each a one-character string; a
\* character a string constant cannot hold is written as its code point.
\* What String.prototype.trim strips: the WhiteSpace and LineTerminator
\* code points of ECMAScript (TAB, VT, FF, SP, NBSP, ZWNBSP, the space
\* separators; LF, CR, LS, PS).
WhiteSpace ==
  {" ", "\t", "\n", "\r", "\f", "U+000B", "U+00A0", "U+FEFF", "U+1680",
   "U+2000", "U+2001", "U+2002", "U+2003", "U+2004", "U+2005", "U+2006",
   "U+2007", "U+2008", "U+2009", "U+200A", "U+2028", "U+2029", "U+202F",
   "U+205F", "U+3000"}

RECURSIVE TrimStart(_)
TrimStart(s) ==
  IF s # <<>> /\ Head(s) \in WhiteSpace THEN TrimStart(Tail(s)) ELSE s

RECURSIVE TrimEnd(_)
TrimEnd(s) ==
  IF s # <<>> /\ s[Len(s)] \in WhiteSpace
  THEN TrimEnd(SubSeq(s, 1, Len(s) - 1))
  ELSE s

\* A guard that tests the raw text: !inputMessage instead of
\* !inputMessage.trim().
TrimNothing(s) == s

\* String.prototype.trim
Trim(s) == TrimEnd(TrimStart(s))

\* Truthiness of a string: only the empty string is falsy.
Truthy(s) == s # <<>>

DigitChar == <<"0", "1", "2", "3", "4", "5", "6", "7", "8", "9">>

\* Number.prototype.toString for a non-negative integer.
RECURSIVE NumToString(_)
NumToString(n) ==
  IF n < 10 THEN <<DigitChar[n + 1]>>
  ELSE NumToString(n \div 10) \o <<DigitChar[(n % 10) + 1]>>

UpperCase ==
  <<"A", "B", "C", "D", "E", "F", "G", "H", "I", "J", "K", "L", "M",
    "N", "O", "P", "Q", "R", "S", "T", "U", "V", "W", "X", "Y", "Z">>

LowerCase ==
  <<"a", "b", "c", "d", "e", "f", "g", "h", "i", "j", "k", "l", "m",
    "n", "o", "p", "q", "r", "s", "t", "u", "v", "w", "x", "y", "z">>

\* The lower case of one character: a letter A..Z maps to a..z, every other
\* character of the alphabet (digits, dot, lower-case letters) to itself.
LowerOf(c) ==
  IF \E k \in 1..26 : UpperCase[k] = c
  THEN LowerCase[CHOOSE k \in 1..26 : UpperCase[k] = c]
  ELSE c

\* String.prototype.toLowerCase, character by character.
ToLowerCase(s) == [i \in 1..Len(s) |-> LowerOf(s[i])]

\* name.split('.').pop(): the text after the last dot, the whole name when
\* it has no dot.
RECURSIVE LastSegment(_)
LastSegment(s) ==
  IF \E i \in 1..Len(s) : s[i] = "."
  THEN LastSegment(SubSeq(s, (CHOOSE i \in 1..Len(s) : s[i] = ".") + 1, Len(s)))
  ELSE s

FileType(name) == ToLowerCase(LastSegment(name))

(* ------------------------------ inputs -------------------------------- *)
\* Values typed into the chat input.
Texts == { <<>>, <<" ", "\f">>, <<" ", "q", " ">> }

FilePdf == [name |-> <<"r", ".", "P", "D", "F">>, size |-> 2048]
FileTxt == [name |-> <<"n">>, size |-> 10]

\* event.target.files of a change event of the file input.
FileSelections == { <<>>, <<FileTxt>>, <<FilePdf, FileTxt>> }

Citation1 == [filename |-> "policy.pdf", page |-> 3, relevance |-> 92]
Citation2 == [filename |-> "faq.txt", page |-> 1, relevance |-> 40]
Answer1 == <<"3", "0", " ", "d", "a", "y", "s">>

\* A backend round trip ends in a transport error (fetch rejects) or in an
\* HTTP response: ok is the 2xx flag, body what response.json() yields.
Transport == [kind |-> "transport"]
Http(ok, body) == [kind |-> "http", ok |-> ok, body |-> body]
NonJson == [t |-> "nonjson"]
\* A structured error body such as {detail: "..."}: none of the fields the
\* client reads is present.
ErrorBody == [t |-> "object", answer |-> Undef, sources |-> Undef,
              collection |-> Undef, length |-> Undef]
Obj(fields) == fields @@ ErrorBody

QueryBodies ==
  { NonJson, Null, ErrorBody,
    Obj([answer |-> Str(Answer1)]),
    Obj([answer |-> Str(Answer1), sources |-> Num(0)]),
    Obj([answer |-> Str(Answer1), sources |-> Arr(<<Citation1, Citation2>>)]) }

UploadBodies == { NonJson, Null, ErrorBody, Arr(<<"doc">>) }

HealthBodies ==
  { NonJson, Null, ErrorBody,
    Obj([collection |-> [t |-> "object", document_count |-> Num(7),
                         total_chunks |-> Num(20)]]),
    Obj([collection |-> [t |-> "object", document_count |-> Num(9),
                         total_chunks |-> Num(30)]]) }

Responses(bodies) ==
  {Transport} \cup {Http(ok, b) : ok \in BOOLEAN, b \in bodies}

\* What the specification calls a failed round trip: a transport error or a
\* response outside 2xx.
Failed(resp) == resp.kind = "transport" \/ ~resp.ok

(* ------------------------------- state -------------------------------- *)
VARIABLES
  mounted,           \* the session-start effect has run
  uploadedFiles,     \* useState([]) : sequence of job records
  processingStatus,  \* useState({}) : job id -> status
  messages,          \* useState([greeting]) : the transcript
  inputMessage,      \* useState('') : the chat input buffer
  isThinking,        \* useState(false) : awaiting a query response
  collectionInfo,    \* useState({document_count: 0, total_chunks: 0})
  now,               \* last reading of the wall clock
  queryPending,      \* continuations of handleSendMessage awaiting /query
  uploadPending,     \* continuations of handleFileUpload awaiting /upload
  healthPending,     \* continuations of loadCollectionInfo awaiting /health
  healthIssued,      \* number of /health requests issued so far
  uploadCalls,       \* number of /upload requests issued so far
  alerts             \* blocking notices shown with alert(), oldest first

vars == <<mounted, uploadedFiles, processingStatus, messages, inputMessage,
          isThinking, collectionInfo, now, queryPending, uploadPending,
          healthPending, healthIssued, uploadCalls, alerts>>

chatVars == <<messages, inputMessage, isThinking, queryPending>>
jobVars == <<uploadedFiles, processingStatus, uploadPending, uploadCalls>>
cacheVars == <<collectionInfo, healthPending, healthIssued>>

Greeting ==
  [id |-> <<"1">>, role |-> "assistant",
   content |-> Str("Hello! I can help you find information from the document database. Ask me anything!"),
   sources |-> Undef, timestamp |-> StartTime]

Init ==
  /\ mounted = FALSE
  /\ uploadedFiles = <<>>
  /\ processingStatus = <<>>
  /\ messages = <<Greeting>>
  /\ inputMessage = <<>>
  /\ isThinking = FALSE
  /\ collectionInfo = [document_count |-> Num(0), total_chunks |-> Num(0)]
  /\ now = StartTime
  /\ queryPending = <<>>
  /\ uploadPending = {}
  /\ healthPending = {}
  /\ healthIssued = 0
  /\ uploadCalls = 0
  /\ alerts = <<>>

(* --------------------------- summary cache ---------------------------- *)
\* loadCollectionInfo up to its first await: one GET /health is issued.
IssueHealth ==
  /\ healthIssued' = healthIssued + 1
  /\ healthPending' = healthPending \cup {healthIssued + 1}

\* The try block of loadCollectionInfo throws: fetch rejects, the body is
\* not JSON, or data.collection is missing (a property read of undefined or
\* null is a TypeError).  The status code is never looked at.
HealthThrows(resp) ==
  \/ resp.kind = "transport"
  \/ resp.body = NonJson
  \/ resp.body = Null
  \/ resp.body.collection \in {Undef, Null}

\* The value passed to setCollectionInfo.
NewCollectionInfo(data) ==
  [document_count |-> data.collection.document_count,
   total_chunks |-> data.collection.document_count]

\* The session-start effect: useEffect(() => { loadCollectionInfo() }, []).
Mount ==
  /\ ~mounted
  /\ mounted' = TRUE
  /\ IssueHealth
  /\ UNCHANGED <<chatVars, jobVars, collectionInfo, now, alerts>>

\* Continuation of loadCollectionInfo when request h resolves with resp.
HealthResolve(h, resp) ==
  /\ h \in healthPending
  /\ healthPending' = healthPending \ {h}
  /\ collectionInfo' =
       IF HealthThrows(resp) THEN collectionInfo
       ELSE NewCollectionInfo(resp.body)
  /\ UNCHANGED <<mounted, chatVars, jobVars, healthIssued, now, alerts>>

(* ----------------------------- transcript ----------------------------- *)
\* onChange of the chat input: setInputMessage(e.target.value).  The handler
\* has no guard of its own (the input element is merely rendered disabled
\* while isThinking), so the buffer may hold text while a query is pending.
SetInputMessage(text) ==
  /\ mounted
  /\ inputMessage' = text
  /\ UNCHANGED <<mounted, messages, isThinking, queryPending, jobVars,
                 cacheVars, now, alerts>>

\* The guard without its isThinking disjunct.
SendAcceptedWhileThinking(input, thinking) == Truthy(Trim(input))

\* The guard of handleSendMessage, negated: the call goes ahead.
SendAccepted(input, thinking) == Truthy(Trim(input)) /\ ~thinking

\* The id is Date.now() read at t, the timestamp new Date() read at u.
UserMessage(input, t, u) ==
  [id |-> NumToString(t), role |-> "user", content |-> Str(input),
   sources |-> Undef, timestamp |-> u]

\* An assistant message that drops the citation list of the response.
AssistantMessageNoSources(data, t, u) ==
  [id |-> NumToString(t + 1), role |-> "assistant", content |-> data.answer,
   sources |-> Arr(<<>>), timestamp |-> u]

\* The id is Date.now() + 1 read at t, the timestamp new Date() read at u.
AssistantMessage(data, t, u) ==
  [id |-> NumToString(t + 1), role |-> "assistant", content |-> data.answer,
   sources |-> OrEmptyArray(data.sources), timestamp |-> u]

ErrorNotice ==
  <<"Sorry, I encountered an error. Please make sure the backend is running at ",
    API_BASE>>

ErrorMessage(t, u) ==
  [id |-> NumToString(t + 1), role |-> "assistant", content |-> Str(ErrorNotice),
   sources |-> Undef, timestamp |-> u]

\* The try block of handleSendMessage throws: fetch rejects, the body is not
\* JSON, or data is null (data.answer is then a TypeError).  The status code
\* is never looked at.
QueryThrows(resp) ==
  \/ resp.kind = "transport"
  \/ resp.body = NonJson
  \/ resp.body = Null

\* The message appended when the query round trip resolves: its id is read
\* from the clock at t, its timestamp at u.
QueryReply(resp, t, u) ==
  IF QueryThrows(resp) THEN ErrorMessage(t, u)
  ELSE AssistantMessage(resp.body, t, u)

\* A catch block that only logs: a failed round trip appends nothing.
WithReplyUnlessThrown(msgs, resp, t, u) ==
  IF QueryThrows(resp) THEN msgs ELSE Append(msgs, QueryReply(resp, t, u))

\* A reply that takes the place of the message that ends the transcript.
WithReplyInPlace(msgs, resp, t, u) ==
  [msgs EXCEPT ![Len(msgs)] = QueryReply(resp, t, u)]

\* The transcript after the continuation's setMessages(prev => [...prev, m]):
\* the try block appends the assistant message, the catch block the error
\* message.
WithReply(msgs, resp, t, u) == Append(msgs, QueryReply(resp, t, u))

\* The flag after the continuation: setIsThinking(false) follows the
\* try/catch statement, whatever path it took.
ThinkingAfter(resp) == FALSE

UserCount == Cardinality({i \in 1..Len(messages) : messages[i].role = "user"})

Times == now..(StartTime + MaxTicks)

\* The clock readings of a second read, after a first read of t.
LaterTimes(t) == t..(StartTime + MaxTicks)

\* handleSendMessage up to its first await.  The clock is read twice, by
\* Date.now() at t for the id and by new Date() at u for the timestamp, and
\* may have ticked in between.  MaxCalls caps the accepted calls; a call the
\* guard rejects is never capped.
HandleSendMessage(t) ==
  /\ mounted
  /\ IF SendAccepted(inputMessage, isThinking)
     THEN /\ UserCount + uploadCalls < MaxCalls
          /\ \E u \in LaterTimes(t) :
               /\ now' = u
               /\ messages' = Append(messages, UserMessage(inputMessage, t, u))
          /\ inputMessage' = <<>>
          /\ isThinking' = TRUE
          /\ queryPending' =
               Append(queryPending, [query |-> inputMessage, n_results |-> 5])
     ELSE /\ t = now
          /\ UNCHANGED <<chatVars, now>>
  /\ UNCHANGED <<mounted, jobVars, cacheVars, alerts>>

RemoveAt(s, i) == SubSeq(s, 1, i - 1) \o SubSeq(s, i + 1, Len(s))

\* Continuation of handleSendMessage when the i-th pending /query request
\* resolves with resp: the clock reads t for the id of the reply and u for
\* its timestamp.
QueryResolve(i, resp, t) ==
  /\ i \in 1..Len(queryPending)
  /\ \E u \in LaterTimes(t) :
       /\ now' = u
       /\ messages' = WithReply(messages, resp, t, u)
  /\ isThinking' = ThinkingAfter(resp)
  /\ queryPending' = RemoveAt(queryPending, i)
  /\ UNCHANGED <<mounted, inputMessage, jobVars, cacheVars, alerts>>

(* ------------------------------ ingestion ----------------------------- *)
Digits36 ==
  <<"0", "1", "2", "3", "4", "5", "6", "7", "8", "9", "a", "b", "c", "d", "e",
    "f", "g", "h", "i", "j", "k", "l", "m", "n", "o", "p", "q", "r", "s", "t",
    "u", "v", "w", "x", "y", "z">>

\* A value of Math.random() is a double in [0, 1).  A draw is written
\* [p, e] for the double p / 2^e, with 0 <= p < 2^e and e at most 24: such
\* a fraction is a double exactly, and its base-36 expansion is finite.

RECURSIVE Pow2(_)
Pow2(e) == IF e = 0 THEN 1 ELSE 2 * Pow2(e - 1)

\* The first k digits after the point of the double p / 2^e in base 36, as
\* Number.prototype.toString(36) prints them: digit by digit (multiply by
\* 36, take the integer part) until the fraction is used up.  For these
\* doubles the arithmetic is exact and no digit is rounded.
RECURSIVE FracDigits36(_, _, _)
FracDigits36(p, e, k) ==
  IF p = 0 \/ k = 0 THEN <<>>
  ELSE <<Digits36[((36 * p) \div Pow2(e)) + 1]>>
         \o FracDigits36((36 * p) % Pow2(e), e, k - 1)

\* String.prototype.substr(start, length)
Substr(s, start, length) ==
  SubSeq(s, start + 1, IF start + length < Len(s) THEN start + length ELSE Len(s))

\* Values Math.random() returns: 1/2 and 1/2^20.  Nothing keeps two draws
\* apart.
Draws == { [p |-> 1, e |-> 1], [p |-> 1, e |-> 20] }

\* d.toString(36) of a draw: "0" for zero, else "0." and the digits; the
\* digits after the ninth are cut by substr below and are not produced.
ToString36(d) ==
  IF d.p = 0 THEN <<"0">> ELSE <<"0", ".">> \o FracDigits36(d.p, d.e, 9)

\* Math.random().toString(36).substr(2, 9) for the draw d.
JobId(d) == Substr(ToString36(d), 2, 9)

\* newFiles: the i-th file of the selection gets the id of the i-th draw.
NewFiles(files, draws) ==
  [i \in 1..Len(files) |->
     [id |-> JobId(draws[i]), name |-> files[i].name, size |-> files[i].size,
      type |-> FileType(files[i].name), status |-> "pending"]]

Ids(jobs) == [i \in 1..Len(jobs) |-> jobs[i].id]

\* setProcessingStatus(prev => ({...prev, [id]: st}))
SetStatus(ps, id, st) ==
  [k \in (DOMAIN ps) \cup {id} |-> IF k = id THEN st ELSE ps[k]]

\* newFiles.forEach(file => setProcessingStatus(... [file.id]: st ...))
RECURSIVE SetAll(_, _, _)
SetAll(ps, ids, st) ==
  IF ids = <<>> THEN ps ELSE SetAll(SetStatus(ps, Head(ids), st), Tail(ids), st)

\* The successive forEach passes of one continuation, in order.
RECURSIVE ApplyWrites(_, _, _)
ApplyWrites(ps, ids, writes) ==
  IF writes = <<>> THEN ps
  ELSE ApplyWrites(SetAll(ps, ids, Head(writes)), ids, Tail(writes))

\* What the list shows for a job: processingStatus[file.id] || 'pending'.
StatusOf(id) ==
  IF id \in DOMAIN processingStatus THEN processingStatus[id] ELSE "pending"

\* handleFileUpload up to its first await.
HandleFileUpload(files) ==
  /\ mounted
  /\ IF Len(files) = 0
     THEN UNCHANGED jobVars
     ELSE /\ UserCount + uploadCalls < MaxCalls
          /\ \E draws \in [1..Len(files) -> Draws] :
               LET newFiles == NewFiles(files, draws) IN
               /\ uploadedFiles' = uploadedFiles \o newFiles
               /\ processingStatus' =
                    SetAll(processingStatus, Ids(newFiles), "processing")
               /\ uploadPending' = uploadPending \cup
                    {[call |-> uploadCalls + 1, ids |-> Ids(newFiles),
                      files |-> files]}
               /\ uploadCalls' = uploadCalls + 1
  /\ UNCHANGED <<mounted, chatVars, cacheVars, now, alerts>>

FailureNotice ==
  [kind |-> "failed",
   text |-> <<"Upload failed. Make sure the backend is running at ", API_BASE>>]

\* results.length
LengthOf(results) ==
  IF results.t = "array" THEN Num(Len(results.v)) ELSE results.length

SuccessNotice(results) == [kind |-> "success", count |-> LengthOf(results)]

\* The path the continuation of handleFileUpload takes: the status values
\* it writes for every job of the batch (in order), whether it calls
\* loadCollectionInfo, and the notice it shows.  fetch rejecting or a body
\* that is not JSON goes straight to the catch block; a null body throws in
\* the success notice (results.length), after the jobs were marked completed
\* and the refresh was started.  The status code is never looked at.
UploadOutcome(resp) ==
  IF resp.kind = "transport" \/ resp.body = NonJson
  THEN [writes |-> <<"error">>, refresh |-> FALSE, notice |-> FailureNotice]
  ELSE IF resp.body = Null
  THEN [writes |-> <<"completed", "error">>, refresh |-> TRUE,
        notice |-> FailureNotice]
  ELSE [writes |-> <<"completed">>, refresh |-> TRUE,
        notice |-> SuccessNotice(resp.body)]

\* Continuation of handleFileUpload when batch b's /upload request resolves.
UploadResolve(b, resp) ==
  /\ b \in uploadPending
  /\ uploadPending' = uploadPending \ {b}
  /\ LET out == UploadOutcome(resp) IN
     /\ processingStatus' = ApplyWrites(processingStatus, b.ids, out.writes)
     /\ IF out.refresh THEN IssueHealth
        ELSE UNCHANGED <<healthIssued, healthPending>>
     /\ alerts' = Append(alerts, out.notice)
  /\ UNCHANGED <<mounted, chatVars, uploadedFiles, uploadCalls,
                 collectionInfo, now>>

RECURSIVE SelectSeqNot(_, _)
SelectSeqNot(s, id) ==
  IF s = <<>> THEN <<>>
  ELSE IF Head(s).id # id THEN <<Head(s)>> \o SelectSeqNot(Tail(s), id)
  ELSE SelectSeqNot(Tail(s), id)

\* delete newStatus[fileId] on a copy of the map
DeleteKey(ps, id) == [k \in (DOMAIN ps) \ {id} |-> ps[k]]

AllJobIds == {JobId(d) : d \in Draws}

\* removeFile(fileId), for any id: one that is tracked, one that was removed
\* before, or one that was never given out.
RemoveFile(fileId) ==
  /\ mounted
  /\ uploadedFiles' = SelectSeqNot(uploadedFiles, fileId)
  /\ processingStatus' = DeleteKey(processingStatus, fileId)
  /\ UNCHANGED <<mounted, chatVars, uploadPending, uploadCalls, cacheVars,
                 now, alerts>>

(* --------------------------- specification ---------------------------- *)
Next ==
  \/ Mount
  \/ \E text \in Texts : SetInputMessage(text)
  \/ \E t \in Times : HandleSendMessage(t)
  \/ \E i \in 1..Len(queryPending), resp \in Responses(QueryBodies), t \in Times :
       QueryResolve(i, resp, t)
  \/ \E files \in FileSelections : HandleFileUpload(files)
  \/ \E b \in uploadPending, resp \in Responses(UploadBodies) :
       UploadResolve(b, resp)
  \/ \E fileId \in AllJobIds : RemoveFile(fileId)
  \/ \E h \in healthPending, resp \in Responses(HealthBodies) :
       HealthResolve(h, resp)

Spec == Init /\ [][Next]_vars

\* The query request always resolves: the proviso under which the transcript
\* properties speak of "eventually".
QueryFairness ==
  WF_vars(\E i \in 1..Len(queryPending), resp \in Responses(QueryBodies),
             t \in Times : QueryResolve(i, resp, t))

LiveSpec == Spec /\ QueryFairness

(* ----------------------------- properties ----------------------------- *)
Last(s) == s[Len(s)]
IsPrefix(s, u) == Len(s) <= Len(u) /\ SubSeq(u, 1, Len(s)) = s
SendStep == \E t \in Times : HandleSendMessage(t)
ResolveStep ==
  \E i \in 1..Len(queryPending), resp \in Responses(QueryBodies), t \in Times :
    QueryResolve(i, resp, t)
NonBlank(text) == \E i \in 1..Len(text) : text[i] \notin WhiteSpace

\* C1: a submission with text that is non-empty after trimming, made while
\* not awaiting a response, appends exactly one user message at once and
\* raises the flag; the resolution of its request appends exactly one
\* assistant message and lowers the flag; nothing else touches the
\* transcript in between; and, the request resolving, the transcript with n
\* messages and the flag raised leads to n + 1 messages, the last from the
\* assistant, and the flag lowered.
C1_SubmitThenReply ==
  /\ [][(NonBlank(inputMessage) /\ ~isThinking /\ SendStep) =>
          /\ Len(messages') = Len(messages) + 1
          /\ IsPrefix(messages, messages')
          /\ Last(messages').role = "user"
          /\ isThinking']_vars
  /\ [][ResolveStep =>
          /\ Len(messages') = Len(messages) + 1
          /\ IsPrefix(messages, messages')
          /\ Last(messages').role = "assistant"
          /\ ~isThinking']_vars
  /\ [][(isThinking /\ isThinking') => messages' = messages]_vars
  /\ \A n \in 1..(2 * MaxCalls) :
       (isThinking /\ Len(messages) = n /\ Last(messages).role = "user")
         ~> (~isThinking /\ Len(messages) = n + 1
             /\ Last(messages).role = "assistant")

\* A submission was answered: a user message followed by its reply, the
\* flag lowered again.
C1_Witness ==
  /\ Len(messages) = 3
  /\ messages[2].role = "user"
  /\ messages[3].role = "assistant"
  /\ ~isThinking

\* C2: a submission made while the flag is raised leaves the transcript and
\* the flag as they are and issues no query request.
C2_IgnoredWhileThinking ==
  [][(isThinking /\ SendStep) =>
       UNCHANGED <<messages, isThinking, queryPending>>]_vars

\* The flag is raised and the input holds text a submission would otherwise
\* send: the flag alone is what makes the call a no-op here.
C2_Witness == isThinking /\ NonBlank(inputMessage) /\ Len(queryPending) = 1

\* C3: a submission of empty or whitespace-only text, and a file selection
\* with no files, change no state at all: no request, no notice.
C3_ValidationNoOp ==
  [][((~NonBlank(inputMessage) /\ SendStep) \/ HandleFileUpload(<<>>)) =>
       UNCHANGED vars]_vars

\* Whitespace-only text in the input of a session that is idle and has
\* jobs, where a call that did anything would show.
C3_Witness ==
  /\ inputMessage # <<>>
  /\ ~NonBlank(inputMessage)
  /\ ~isThinking
  /\ uploadedFiles # <<>>
  /\ Len(messages) > 1

TrackedIds == {uploadedFiles[i].id : i \in 1..Len(uploadedFiles)}
SeqToSet(s) == {s[i] : i \in 1..Len(s)}

\* C4: a selection of N >= 1 files appends exactly N jobs created pending,
\* all shown processing once the one batch request is out; the resolution of
\* that request gives every job of the batch one and the same status,
\* completed or error; and two tracked jobs of one batch never show
\* different statuses.
C4_BatchMovesTogether ==
  /\ [](\A b \in uploadPending :
          \A a \in SeqToSet(b.ids) \cap TrackedIds,
             c \in SeqToSet(b.ids) \cap TrackedIds : StatusOf(a) = StatusOf(c))
  /\ [][\A files \in FileSelections :
          (Len(files) >= 1 /\ HandleFileUpload(files)) =>
            /\ Len(uploadedFiles') = Len(uploadedFiles) + Len(files)
            /\ IsPrefix(uploadedFiles, uploadedFiles')
            /\ \A i \in (Len(uploadedFiles) + 1)..Len(uploadedFiles') :
                 /\ uploadedFiles'[i].status = "pending"
                 /\ uploadedFiles'[i].id \in DOMAIN processingStatus'
                 /\ processingStatus'[uploadedFiles'[i].id] = "processing"
            /\ Cardinality(uploadPending') = Cardinality(uploadPending) + 1]_vars
  /\ [][\A b \in uploadPending :
          b \notin uploadPending' =>
            \E st \in {"completed", "error"} :
              \A id \in SeqToSet(b.ids) :
                id \in DOMAIN processingStatus' /\ processingStatus'[id] = st]_vars

\* C5: removing an id that is not tracked changes nothing; removing a
\* tracked id shortens the job sequence by exactly one, the id is gone, the
\* other jobs keep their order, and no request is issued.
C5_RemoveJob ==
  [][\A id \in AllJobIds :
       RemoveFile(id) =>
         IF id \notin TrackedIds THEN UNCHANGED vars
         ELSE /\ Len(uploadedFiles') = Len(uploadedFiles) - 1
              /\ id \notin {uploadedFiles'[i].id : i \in 1..Len(uploadedFiles')}
              /\ uploadedFiles' =
                   SelectSeq(uploadedFiles, LAMBDA f : f.id # id)
              /\ UNCHANGED <<queryPending, uploadPending, healthPending,
                             healthIssued>>]_vars

\* C6: a failed query round trip (transport error or non-2xx response)
\* appends an assistant message whose content is the fixed failure notice and
\* which has no citations, and lowers the flag.
C6_FailureNotice ==
  [][\A i \in 1..Len(queryPending), resp \in Responses(QueryBodies), t \in Times :
       (Failed(resp) /\ QueryResolve(i, resp, t)) =>
         /\ Last(messages').role = "assistant"
         /\ Last(messages').content = Str(ErrorNotice)
         /\ Last(messages').sources \in {Undef, Arr(<<>>)}
         /\ ~isThinking']_vars

\* C7: a failed batch upload (transport error or non-2xx response) leaves
\* every job of the batch in error and starts no refresh of the summary.
C7_FailedUpload ==
  [][\A b \in uploadPending, resp \in Responses(UploadBodies) :
       (Failed(resp) /\ UploadResolve(b, resp)) =>
         /\ \A id \in SeqToSet(b.ids) : processingStatus'[id] = "error"
         /\ UNCHANGED <<healthIssued, healthPending>>]_vars

\* Batches whose jobs ended completed: the success notice is shown exactly
\* when the continuation ran to its end.
CompletedBatches ==
  Cardinality({i \in 1..Len(alerts) : alerts[i].kind = "success"})

\* C8: the number of /health requests issued is 1 (session start) plus the
\* number of batches whose jobs ended completed.
C8_RefreshCount == mounted => healthIssued = 1 + CompletedBatches

\* C9: a failed refresh (transport error or non-2xx response) leaves the
\* cached summary, the notices, the transcript, the flag and the job
\* statuses as they were.
C9_FailedRefresh ==
  [][\A h \in healthPending, resp \in Responses(HealthBodies) :
       (Failed(resp) /\ HealthResolve(h, resp)) =>
         UNCHANGED <<collectionInfo, alerts, messages, isThinking,
                     uploadedFiles, processingStatus>>]_vars

\* A 2xx response whose body carries the collection object.
RefreshSucceeded(resp) ==
  /\ resp.kind = "http"
  /\ resp.ok
  /\ resp.body.t = "object"
  /\ resp.body.collection.t = "object"

\* C10: a successful refresh replaces both cached counts in one step, the
\* document count by the response's document count and the chunk count by
\* the chunk count the response reports.
C10_RefreshReplaces ==
  [][\A h \in healthPending, resp \in Responses(HealthBodies) :
       (RefreshSucceeded(resp) /\ HealthResolve(h, resp)) =>
         collectionInfo' =
           [document_count |-> resp.body.collection.document_count,
            total_chunks |-> resp.body.collection.total_chunks]]_vars

\* A 2xx response whose body carries an answer.
QuerySucceeded(resp) ==
  /\ resp.kind = "http"
  /\ resp.ok
  /\ resp.body.t = "object"
  /\ resp.body.answer.t = "string"

\* C11: a successful query round trip appends an assistant message whose
\* content is the answer of the response and whose sources are its citation
\* list, in order, or the empty list when it has none; the user message
\* before it holds the submitted text verbatim, untrimmed.
C11_AnswerAndSources ==
  /\ [][(NonBlank(inputMessage) /\ ~isThinking /\ SendStep) =>
          /\ Last(messages').role = "user"
          /\ Last(messages').content = Str(inputMessage)
          /\ Last(queryPending').query = inputMessage]_vars
  /\ [][\A i \in 1..Len(queryPending), resp \in Responses(QueryBodies), t \in Times :
          (QuerySucceeded(resp) /\ QueryResolve(i, resp, t)) =>
            /\ Len(messages') = Len(messages) + 1
            /\ Last(messages').role = "assistant"
            /\ Last(messages').content = resp.body.answer
            /\ Last(messages').sources =
                 IF resp.body.sources.t = "array" THEN resp.body.sources
                 ELSE Arr(<<>>)
            /\ messages'[Len(messages)].role = "user"
            /\ messages'[Len(messages)].content = Str(queryPending[i].query)]_vars

\* The text was sent with its surrounding blanks and answered with two
\* citations, kept in the order of the response.
C11_Witness ==
  /\ Len(messages) = 3
  /\ messages[2].content = Str(<<" ", "q", " ">>)
  /\ messages[3].content = Str(Answer1)
  /\ messages[3].sources = Arr(<<Citation1, Citation2>>)

\* C12: at most one query request is in flight in every reachable state, so
\* the request that resolves is the oldest (and only) one, it answers the
\* user message that ends the transcript, and replies are appended in the
\* order the requests were issued.
C12_OneQueryInFlight ==
  /\ [](Len(queryPending) <= 1)
  /\ [][\A i \in 1..Len(queryPending), resp \in Responses(QueryBodies), t \in Times :
          QueryResolve(i, resp, t) =>
            /\ i = 1
            /\ Len(queryPending) = 1
            /\ Last(messages).role = "user"
            /\ Last(messages).content = Str(queryPending[i].query)
            /\ Last(messages').role = "assistant"]_vars

\* A second request is in flight after the first was answered.
C12_Witness ==
  /\ Len(queryPending) = 1
  /\ Len(messages) = 4
  /\ messages[3].role = "assistant"
  /\ messages[4].role = "user"

\* The status entries outside the ids of batch b are the same in ps and qs.
SameOutside(b, ps, qs) ==
  \A id \in ((DOMAIN ps) \cup (DOMAIN qs)) \ SeqToSet(b.ids) :
    /\ id \in DOMAIN ps
    /\ id \in DOMAIN qs
    /\ ps[id] = qs[id]

\* C13: with several uploads in flight, the resolution of one of them changes
\* the status of the jobs of that call only; the status of every job of every
\* other batch is the same before and after it.
C13_BatchIsolation ==
  [][\A b \in uploadPending, resp \in Responses(UploadBodies) :
       UploadResolve(b, resp) =>
         /\ SameOutside(b, processingStatus, processingStatus')
         /\ \A id \in AllJobIds \ SeqToSet(b.ids) : StatusOf(id)' = StatusOf(id)
         /\ \A other \in uploadPending \ {b} :
              \A id \in SeqToSet(other.ids) : StatusOf(id)' = StatusOf(id)
         /\ uploadedFiles' = uploadedFiles]_vars

\* C14: in every reachable state the transcript is the greeting followed by
\* strictly alternating user and assistant messages; it ends on a user
\* message exactly while isThinking is true, so with the flag false every
\* user message is followed by one assistant message, also after a failed
\* round trip.
C14_Alternation ==
  /\ Len(messages) >= 1
  /\ messages[1] = Greeting
  /\ \A k \in 2..Len(messages) :
       messages[k].role = IF k % 2 = 0 THEN "user" ELSE "assistant"
  /\ (Last(messages).role = "user") <=> isThinking
  /\ ~isThinking =>
       \A k \in 2..Len(messages) :
         messages[k].role = "user" =>
           /\ k < Len(messages)
           /\ messages[k + 1].role = "assistant"

\* Two round trips are over, the first of them failed.
C14_Witness ==
  /\ ~isThinking
  /\ Len(messages) = 5
  /\ messages[3].content = Str(ErrorNotice)
  /\ messages[5].role = "assistant"

\* C15: the ids of the messages of the transcript are pairwise distinct in
\* every reachable state.
C15_DistinctIds ==
  \A j, k \in 1..Len(messages) : j # k => messages[j].id # messages[k].id

\* An accepted selection of files: non-empty, within the call budget.
EnqueueStep(files) == Len(files) > 0 /\ HandleFileUpload(files)

\* The session still takes a query and a selection of files after the step.
StaysInteractive ==
  /\ ~isThinking'
  /\ \A text \in Texts : NonBlank(text) => SendAccepted(text, isThinking')

\* A retry appends fresh jobs and leaves every earlier job and status alone.
RetryIsFresh(files) ==
  /\ Len(uploadedFiles') = Len(uploadedFiles) + Len(files)
  /\ IsPrefix(uploadedFiles, uploadedFiles')
  /\ \A k \in (Len(uploadedFiles) + 1)..Len(uploadedFiles') :
       /\ uploadedFiles'[k].id \notin TrackedIds
       /\ uploadedFiles'[k].id \notin DOMAIN processingStatus
       /\ uploadedFiles'[k].id \in DOMAIN processingStatus'
       /\ processingStatus'[uploadedFiles'[k].id] = "processing"
  /\ \A id \in DOMAIN processingStatus :
       /\ id \in DOMAIN processingStatus'
       /\ processingStatus'[id] = processingStatus[id]
  /\ Cardinality(uploadPending') = Cardinality(uploadPending) + 1

\* C16: no failure is fatal.  After a failed query, a failed upload or a
\* failed refresh has resolved, a submission of non-blank text is accepted
\* and a selection of files is accepted; a retry after a failed upload
\* creates fresh jobs and leaves the jobs of the failed batch in error.
C16_NoFailureIsFatal ==
  /\ [][\A i \in 1..Len(queryPending), resp \in Responses(QueryBodies), t \in Times :
          (Failed(resp) /\ QueryResolve(i, resp, t)) => StaysInteractive]_vars
  /\ [][\A h \in healthPending, resp \in Responses(HealthBodies) :
          (Failed(resp) /\ HealthResolve(h, resp)) =>
            UNCHANGED <<isThinking, messages, jobVars>>]_vars
  /\ [][\A b \in uploadPending, resp \in Responses(UploadBodies) :
          (Failed(resp) /\ UploadResolve(b, resp)) =>
            /\ UNCHANGED <<isThinking, messages, uploadedFiles>>
            /\ \A id \in SeqToSet(b.ids) \cap TrackedIds :
                 StatusOf(id)' = "error"]_vars
  /\ [][(NonBlank(inputMessage) /\ ~isThinking /\ SendStep) =>
          /\ Len(messages') = Len(messages) + 1
          /\ Len(queryPending') = Len(queryPending) + 1]_vars
  /\ [][\A files \in FileSelections :
          EnqueueStep(files) => RetryIsFresh(files)]_vars

\* A step of the ingestion pipeline or of the summary cache.
JobOrCacheStep ==
  \/ \E files \in FileSelections : HandleFileUpload(files)
  \/ \E b \in uploadPending, resp \in Responses(UploadBodies) : UploadResolve(b, resp)
  \/ \E fileId \in AllJobIds : RemoveFile(fileId)
  \/ \E h \in healthPending, resp \in Responses(HealthBodies) : HealthResolve(h, resp)
  \/ Mount

\* C17: the transcript is append-only.  Every transition leaves the old
\* transcript a prefix of the new one, and no operation on upload jobs or
\* on the summary cache changes the transcript.
C17_AppendOnly ==
  /\ [][IsPrefix(messages, messages')]_vars
  /\ [][JobOrCacheStep => messages' = messages]_vars
  /\ [][messages' # messages =>
          /\ Len(messages') = Len(messages) + 1
          /\ (SendStep \/ ResolveStep)]_vars

\* A round trip is over, a batch was ingested and the cache was refreshed.
C17_Witness ==
  /\ Len(messages) = 3
  /\ \E id \in TrackedIds : StatusOf(id) = "completed"
  /\ collectionInfo.document_count = Num(7)

\* The displayed status of id when the status map is ps.
StatusIn(ps, id) == IF id \in DOMAIN ps THEN ps[id] ELSE "pending"

\* C18: nothing times out and nothing is cancelled.  While a query is
\* unresolved the flag is true and while an upload is unresolved its tracked
\* jobs are processing; the flag falls only at the resolution of the query
\* and a job leaves processing only at the resolution of its batch or by
\* its removal.
C18_NoTimeout ==
  /\ [](queryPending # <<>> => isThinking)
  /\ [](\A b \in uploadPending :
          \A id \in SeqToSet(b.ids) \cap TrackedIds : StatusOf(id) = "processing")
  /\ [][(isThinking /\ ~isThinking') => ResolveStep]_vars
  /\ [][\A id \in AllJobIds :
          (StatusOf(id) = "processing" /\ StatusIn(processingStatus', id) # "processing") =>
            \/ \E b \in uploadPending, resp \in Responses(UploadBodies) :
                 id \in SeqToSet(b.ids) /\ UploadResolve(b, resp)
            \/ id \in TrackedIds /\ RemoveFile(id)]_vars

\* C19: every entry of processingStatus belongs to a job of uploadedFiles in
\* every reachable state; a job removed while its batch is in flight gets no
\* status entry again when the batch resolves.
C19_StatusOnlyForTracked == DOMAIN processingStatus \subseteq TrackedIds

\* A sequence of status writes that never leaves a final status.
RECURSIVE LegalWrites(_, _)
LegalWrites(from, writes) ==
  IF writes = <<>> THEN TRUE
  ELSE /\ \/ from = "pending" /\ Head(writes) = "processing"
          \/ from = "processing" /\ Head(writes) \in {"completed", "error"}
       /\ LegalWrites(Head(writes), Tail(writes))

\* C20: a status moves along pending, processing, then completed or error,
\* and completed and error are final.  For every response, a job set to
\* completed is never set to error afterwards, and a batch that ends in
\* error has not started a refresh.
C20_StatusLifecycle ==
  /\ [][\A id \in TrackedIds \cap TrackedIds' :
          StatusIn(processingStatus', id) # StatusOf(id) =>
            \/ StatusOf(id) = "pending" /\ StatusIn(processingStatus', id) = "processing"
            \/ /\ StatusOf(id) = "processing"
               /\ StatusIn(processingStatus', id) \in {"completed", "error"}]_vars
  /\ [][\A b \in uploadPending, resp \in Responses(UploadBodies) :
          UploadResolve(b, resp) =>
            /\ LegalWrites("processing", UploadOutcome(resp).writes)
            /\ (\E id \in SeqToSet(b.ids) : StatusIn(processingStatus', id) = "error")
                 => healthIssued' = healthIssued]_vars

\* The refreshes that were issued and have resolved.
ResolvedRefreshes == (1..healthIssued) \ healthPending

\* C21: with several refreshes in flight and their responses arriving in any
\* order, the cache ends with the counts of the most recently issued
\* successful refresh: a response to an earlier-issued refresh that arrives
\* after a later-issued one has succeeded does not replace the cached
\* document count.  The case is read off the state where it is certain:
\* every refresh that has resolved was issued after h and the cache no
\* longer holds its initial counts, so a refresh issued after h succeeded.
C21_LatestIssuedWins ==
  [][\A h \in healthPending, resp \in Responses(HealthBodies) :
       ( /\ ResolvedRefreshes # {}
         /\ \A r \in ResolvedRefreshes : r > h
         /\ collectionInfo.document_count # Num(0)
         /\ RefreshSucceeded(resp)
         /\ HealthResolve(h, resp) ) =>
         collectionInfo'.document_count = collectionInfo.document_count]_vars

=============================================================================
